---- MODULE Spec2Model ----
(***************************************************************************)
(* A model of gradlew.py, the pure python gradle wrapper.                  *)
(*                                                                         *)
(* Python strings are sequences of tokens (a token is a run of characters  *)
(* that no operation of the program splits); the empty string is << >>.    *)
(* One invocation of the program is one process p: main() parses the       *)
(* command line, gradlew() resolves the distribution, download_gradle()    *)
(* populates the cache directory and run_command() launches gradle.  Up to *)
(* two processes share one cache directory (libdir).                       *)
(***************************************************************************)
EXTENDS Integers, Sequences, FiniteSets, TLC

(* ------------------------------ bounds -------------------------------- *)

\* the number of invocations started in one behaviour
MaxRuns == 2
\* the number of lines of a gradle-wrapper.properties file
MaxLines == 3
\* the largest exit status of the launched child process
MaxChildExit == 2
\* the number of entries of the remote index of versions
MaxIndex == 2
\* the most entries of a mapping that is saved
MaxEntries == 2
\* the longest content read has MaxChunks full chunks and one byte
MaxChunks == 2
\* how many reads of one download return fewer bytes than asked for
MaxShort == 1

Procs == {1, 2}

(* ------------------------------ strings ------------------------------- *)

\* Python's None
None == <<"<None>">>

\* Python truthiness of an Optional[str]
Truthy(s) == s # None /\ s # << >>

StartsWith(s, pre) ==
    Len(s) >= Len(pre) /\ SubSeq(s, 1, Len(pre)) = pre

\* the index of the first occurrence of old in s, 0 when there is none
Find(s, old) ==
    LET hits == { i \in 1..(Len(s) - Len(old) + 1) :
                    SubSeq(s, i, i + Len(old) - 1) = old }
    IN  IF hits = {} THEN 0 ELSE CHOOSE i \in hits : \A j \in hits : i <= j

\* s.replace(old, new, 1)
Replace1(s, old, new) ==
    LET i == Find(s, old)
    IN  IF i = 0 THEN s
        ELSE SubSeq(s, 1, i - 1) \o new \o SubSeq(s, i + Len(old), Len(s))

\* a split that keeps the key
SplitEqLast_Whole(s) == s

\* s.split("=", 1)[-1]
SplitEqLast(s) ==
    LET i == Find(s, <<"=">>)
    IN  IF i = 0 THEN s ELSE SubSeq(s, i + 1, Len(s))

\* tokens that are one character long
SingleChar == {".", "X", ":", "\\", "="}

(* ------------------------------ constants ----------------------------- *)

DistPrefix == <<"https", ":", "//services.gradle.org/distributions/gradle-">>

\* GRADLE_BINZIP_URL.format(version)
GRADLE_BINZIP_URL(version) == DistPrefix \o version \o <<"-bin", ".", "zip">>

\* GRADLE_BINZIP_RX.fullmatch(url): the dot before "zip" is not escaped in
\* the pattern and matches any one character
RxMatches(url) ==
    /\ Len(url) >= Len(DistPrefix) + 3
    /\ StartsWith(url, DistPrefix)
    /\ url[Len(url) - 2] = "-bin"
    /\ url[Len(url) - 1] \in SingleChar
    /\ url[Len(url)] = "zip"

\* m[1] of a match
RxGroup1(url) == SubSeq(url, Len(DistPrefix) + 1, Len(url) - 3)

V87 == <<"8.7">>
V88 == <<"8.8">>
V99 == <<"9.9">>

Sha87 == <<"sha-of-zip87">>
Sha88 == <<"sha-of-zip88">>
ShaJunk == <<"sha-of-junk">>

\* the contents of gradle-versions.json, as update_gradle_versions writes
\* them: every binzip_url is the template instantiated with its version
GradleVersionsJson ==
    [v \in {V87, V88} |->
        [binzip_url |-> GRADLE_BINZIP_URL(v),
         sha256     |-> IF v = V87 THEN Sha87 ELSE Sha88]]

(* ------------------------- gradle-versions.json ----------------------- *)

\* A dict is the sequence of its <<key, value>> items in insertion order,
\* the keys distinct.
Keys(d) == { d[i][1] : i \in 1..Len(d) }

\* d[key], for a key of d
Get(d, key) == d[CHOOSE i \in 1..Len(d) : d[i][1] = key][2]

\* d[key] = value
Put(d, key, value) ==
    IF key \in Keys(d)
    THEN [i \in 1..Len(d) |-> IF d[i][1] = key THEN <<key, value>> ELSE d[i]]
    ELSE Append(d, <<key, value>>)

\* the tokens of a JSON text: the quote, the backslash, and the white space
\* that json.dump(indent=2) writes
Quote == "\""
Backslash == "\\"
JsonSpace == {"\n", "\n  ", "\n    ", " "}

\* json.dump of one token of a str: the quote, the backslash and the control
\* characters are escaped, a character that is not ASCII is written \uXXXX
\* (ensure_ascii)
JsonEscape(tok) ==
    CASE tok = Quote     -> <<Backslash, Quote>>
      [] tok = Backslash -> <<Backslash, Backslash>>
      [] tok = "\n"      -> <<Backslash, "n">>
      [] tok = "é"       -> <<Backslash, "u00e9">>
      [] OTHER           -> <<tok>>

JsonUnescape_Raw(tok) == tok

\* what the token after a backslash stands for in a JSON string
JsonUnescape(tok) ==
    CASE tok = "n"     -> "\n"
      [] tok = "u00e9" -> "é"
      [] OTHER         -> tok

\* json.dump of the tokens of a str: each token gives the slot of its
\* backslash, kept when the token is escaped, and the slot of the token
JsonStrBody(str) ==
    LET slots == [m \in 1..(2 * Len(str)) |->
                    LET esc == JsonEscape(str[(m + 1) \div 2])
                    IN  IF m % 2 = 1
                        THEN [keep |-> Len(esc) = 2, tok |-> esc[1]]
                        ELSE [keep |-> TRUE, tok |-> esc[Len(esc)]]]
        kept == SelectSeq(slots, LAMBDA x : x.keep)
    IN  [m \in 1..Len(kept) |-> kept[m].tok]

\* json.dump of a str
JsonStr(str) == <<Quote>> \o JsonStrBody(str) \o <<Quote>>

\* the line break and indentation that json.dump(indent=2) writes before
\* an item at a nesting level
Indent(level) ==
    CASE level = 0 -> "\n"
      [] level = 1 -> "\n  "
      [] OTHER     -> "\n    "

\* json.dump(indent=2) of a value: a str at depth 0, else a dict whose
\* values are of depth - 1
RECURSIVE JsonText(_, _, _), JsonItemsText(_, _, _)
JsonText(v, depth, level) ==
    IF depth = 0 THEN JsonStr(v)
    ELSE IF v = << >> THEN <<"{", "}">>
    ELSE <<"{">> \o JsonItemsText(v, depth, level + 1) \o <<Indent(level), "}">>

JsonItemsText(d, depth, level) ==
    IF d = << >> THEN << >>
    ELSE <<Indent(level)>> \o JsonStr(d[1][1]) \o <<":", " ">>
           \o JsonText(d[1][2], depth - 1, level)
           \o (IF Len(d) > 1 THEN <<",">> ELSE << >>)
           \o JsonItemsText(Tail(d), depth, level)

\* the record that line 146 stores for a version
VersionRecord(binzip_url, sha256) ==
    << << <<"binzip_url">>, binzip_url >>, << <<"sha256">>, sha256 >> >>

\* json.dump(data, fh, indent=2) and fh.write("\n"), lines 121-122
JsonDump(data) == JsonText(data, 2, 0) \o <<"\n">>

\* the outcome of parsing from a place of the text
JsonFail == [ok |-> FALSE, val |-> << >>, next |-> 0]
JsonOk(val, next) == [ok |-> TRUE, val |-> val, next |-> next]

\* the first place from i on that holds no white space
RECURSIVE JsonSkip(_, _)
JsonSkip(t, i) ==
    IF i <= Len(t) /\ t[i] \in JsonSpace THEN JsonSkip(t, i + 1) ELSE i

\* the number of backslashes that end right before place j
RECURSIVE BackRun(_, _)
BackRun(t, j) ==
    IF j > 1 /\ t[j - 1] = Backslash THEN 1 + BackRun(t, j - 1) ELSE 0

\* the token at place j is escaped by the backslash before it
JsonEscaped(t, j) == BackRun(t, j) % 2 = 1

\* a JSON string whose opening quote is at i: it ends at the first quote
\* that is not escaped; a raw line break in it is an error
JsonString(t, i) ==
    IF i > Len(t) \/ t[i] # Quote THEN JsonFail
    ELSE LET ends == { j \in (i + 1)..Len(t) :
                         t[j] = Quote /\ ~JsonEscaped(t, j) }
         IN  IF ends = {} THEN JsonFail
             ELSE LET end == CHOOSE j \in ends : \A k \in ends : j <= k
                      slots == [m \in 1..(end - i - 1) |->
                                  [keep |-> ~(t[i + m] = Backslash
                                              /\ ~JsonEscaped(t, i + m)),
                                   tok  |-> IF JsonEscaped(t, i + m)
                                            THEN JsonUnescape(t[i + m])
                                            ELSE t[i + m]]]
                      kept == SelectSeq(slots, LAMBDA x : x.keep)
                  IN  IF \E k \in (i + 1)..(end - 1) : t[k] \in JsonSpace \ {" "}
                      THEN JsonFail
                      ELSE JsonOk([m \in 1..Len(kept) |-> kept[m].tok], end + 1)

\* a JSON value at i: a string at depth 0, else an object whose values are
\* of depth - 1; a key that is repeated keeps its last value
RECURSIVE JsonValue(_, _, _), JsonMembers(_, _, _, _)
JsonValue(t, i, depth) ==
    IF depth = 0 THEN JsonString(t, i)
    ELSE IF i > Len(t) \/ t[i] # "{" THEN JsonFail
    ELSE LET k == JsonSkip(t, i + 1)
         IN  IF k <= Len(t) /\ t[k] = "}" THEN JsonOk(<< >>, k + 1)
             ELSE JsonMembers(t, k, depth, << >>)

JsonMembers(t, i, depth, acc) ==
    LET key == JsonString(t, i)
        c == JsonSkip(t, key.next)
        v == JsonValue(t, JsonSkip(t, c + 1), depth - 1)
        e == JsonSkip(t, v.next)
    IN  IF ~key.ok \/ c > Len(t) \/ t[c] # ":" THEN JsonFail
        ELSE IF ~v.ok \/ e > Len(t) THEN JsonFail
        ELSE IF t[e] = "}" THEN JsonOk(Put(acc, key.val, v.val), e + 1)
        ELSE IF t[e] = ","
        THEN JsonMembers(t, JsonSkip(t, e + 1), depth, Put(acc, key.val, v.val))
        ELSE JsonFail

\* json.load(fh), line 115, of a text that holds a dict of version records:
\* ok is FALSE when json.load raises JSONDecodeError
JsonLoad(text) ==
    LET r == JsonValue(text, JsonSkip(text, 1), 2)
    IN  IF r.ok /\ JsonSkip(text, r.next) > Len(text) THEN r ELSE JsonFail

(* ------------------------- downloaded contents ------------------------ *)

\* what a server may send for a request: the distribution of a version, or
\* other bytes
Contents == {"zip87", "zip88", "junk"}

\* hashlib.sha256 of a content; distinct contents have distinct digests
Sha256(c) ==
    CASE c = "zip87" -> Sha87
      [] c = "zip88" -> Sha88
      [] OTHER       -> ShaJunk

\* the members of a distribution archive, in archive order, as paths under
\* libdir: <<version, path within gradle-<version>/>>.  A distribution
\* gradle-<v>-bin.zip holds gradle-<v>/bin/gradle between other members.
\* A member is written in one step.
ZipMembers(c) ==
    LET v == IF c = "zip87" THEN V87 ELSE V88
    IN  IF c \in {"zip87", "zip88"}
        THEN << <<v, "LICENSE">>, <<v, "bin/gradle">>, <<v, "lib/gradle.jar">> >>
        ELSE << >>

\* a gradle_cmd that leaves out "bin"
GradleCmd_NoBin(version) == <<version, "gradle">>

\* os.path.join(libdir, f"gradle-{version}", "bin", "gradle")
GradleCmd(version) == <<version, "bin/gradle">>

(* ------------------------ gradle-wrapper.properties ------------------- *)

KeyUrl == <<"distributionUrl", "=">>
KeySha == <<"distributionSha256Sum", "=">>

\* a URL as a .properties file writes it: the colon escaped
Escaped(url) == <<url[1], "\\">> \o SubSeq(url, 2, Len(url))

UrlValues ==
    { Escaped(GRADLE_BINZIP_URL(V87)),
      GRADLE_BINZIP_URL(V88),
      Escaped(DistPrefix \o V87 \o <<"-bin", "X", "zip">>),
      Escaped(GRADLE_BINZIP_URL(V99)),
      <<"http", ":", "//example.org/gradle-8.7-bin.zip">>,
      << >> }

ShaValues == { Sha87, Sha88, << >> }

PropLines ==
    { KeyUrl \o u : u \in UrlValues } \cup
    { KeySha \o h : h \in ShaValues } \cup
    { <<"zipStoreBase", "=", "GRADLE_USER_HOME">> }

\* the files of at most n lines
PropFiles(n) == UNION { [1..k -> PropLines] : k \in 0..n }

\* the files that hold each key at most once, distributionUrl first
PlainFiles ==
    { (IF u = None THEN << >> ELSE << KeyUrl \o u >>) \o
      (IF h = None THEN << >> ELSE << KeySha \o h >>) :
        u \in UrlValues \cup {None}, h \in ShaValues \cup {None} }

WarnManyUrl == <<"Warning", "more than one distributionUrl in gradle-wrapper.properties">>
WarnManySha == <<"Warning", "more than one distributionSha256Sum in gradle-wrapper.properties">>
WarnNoSha == <<"Warning", "no distributionSha256Sum in gradle-wrapper.properties">>

MsgNoDistributionUrl == <<"No distributionUrl in gradle-wrapper.properties">>

\* a parser that never warns of a repeated key
WarnsAgain_Never(previous) == FALSE

\* lines 92 and 97: a line with a key warns when the value held for the
\* key is not empty
WarnsAgain(previous) == Truthy(previous)

\* the loop of load_wrapper_urls from line i on; st holds binzip_url, sha256
\* and the lines written to stderr so far
RECURSIVE WrapperLoop(_, _, _)
WrapperLoop(lines, i, st) ==
    IF i > Len(lines) THEN st
    ELSE LET line == lines[i]
         IN  IF StartsWith(line, KeyUrl)
             THEN WrapperLoop(lines, i + 1,
                    [st EXCEPT
                       !.stderr = IF WarnsAgain(st.binzip_url)
                                  THEN Append(@, WarnManyUrl) ELSE @,
                       !.binzip_url =
                           Replace1(SplitEqLast(line),
                                    <<"https", "\\", ":">>, <<"https", ":">>)])
             ELSE IF StartsWith(line, KeySha)
             THEN WrapperLoop(lines, i + 1,
                    [st EXCEPT
                       !.stderr = IF WarnsAgain(st.sha256)
                                  THEN Append(@, WarnManySha) ELSE @,
                       !.sha256 = SplitEqLast(line)])
             ELSE WrapperLoop(lines, i + 1, st)

\* load_wrapper_urls(): error is the message of the Error raised, or None
load_wrapper_urls(lines) ==
    LET st == WrapperLoop(lines, 1,
                [binzip_url |-> None, sha256 |-> None, stderr |-> << >>])
    IN  IF ~Truthy(st.binzip_url)
        THEN st @@
             [error |-> MsgNoDistributionUrl]
        ELSE [st EXCEPT !.stderr = IF ~Truthy(st.sha256)
                                   THEN Append(@, WarnNoSha) ELSE @] @@
             [error |-> None]

(* ------------------------------ gradlew() ----------------------------- *)

MsgNoSuchFile == <<"No such file">>
MsgUnsupportedURL == <<"Unsupported URL">>
MsgUnknownVersion == <<"Unknown gradle version">>
MsgURLMismatch == <<"URL mismatch">>
MsgPropsShaMismatch == <<"SHA-256 mismatch", ".properties has">>
MsgActualShaMismatch == <<"SHA-256 mismatch", "actual">>

\* a gradlew() that consults the descriptor whatever version was given
NeedsWrapperProps_Always(version) == TRUE

\* line 37: the descriptor is consulted when no version was given
NeedsWrapperProps(version) == ~Truthy(version)

\* a gradlew() that prefers the manifest's URL without comparing
UrlDisagrees_Never(wrapper_binzip_url, binzip_url) == FALSE

\* line 48
UrlDisagrees(wrapper_binzip_url, binzip_url) ==
    Truthy(wrapper_binzip_url) /\ binzip_url # wrapper_binzip_url

\* a gradlew() that compares the checksums only when the URLs differ
ShaDisagrees_Never(wrapper_sha256, sha256) == FALSE

\* line 50
ShaDisagrees(wrapper_sha256, sha256) ==
    Truthy(wrapper_sha256) /\ sha256 # wrapper_sha256

NoTarget == [version |-> None, binzip_url |-> None, sha256 |-> None]
NoWrapper == [binzip_url |-> None, sha256 |-> None]

\* lines 35-51 of gradlew(), the manifest being loaded: the outcome for a
\* version option, a descriptor (exists, lines) and the manifest.  error is
\* the message of the Error raised or None; eff lists the file accesses.
Resolve(version, exists, lines, gradle_versions) ==
    LET base == [error |-> None, target |-> NoTarget, wrapper |-> NoWrapper,
                 stderr |-> << >>, eff |-> << >>]
        lookup(b, v, w) ==
            IF v \notin DOMAIN gradle_versions
            THEN [b EXCEPT !.error = MsgUnknownVersion, !.wrapper = w]
            ELSE LET binzip_url == gradle_versions[v].binzip_url
                     sha256 == gradle_versions[v].sha256
                 IN  IF UrlDisagrees(w.binzip_url, binzip_url)
                     THEN [b EXCEPT !.error = MsgURLMismatch, !.wrapper = w]
                     ELSE IF ShaDisagrees(w.sha256, sha256)
                     THEN [b EXCEPT !.error = MsgPropsShaMismatch, !.wrapper = w]
                     ELSE [b EXCEPT !.wrapper = w,
                                    !.target = [version |-> v,
                                                binzip_url |-> binzip_url,
                                                sha256 |-> sha256]]
    IN  IF NeedsWrapperProps(version)
        THEN IF ~exists
             THEN [base EXCEPT !.error = MsgNoSuchFile, !.eff = <<"stat_props">>]
             ELSE LET r == load_wrapper_urls(lines)
                      b == [base EXCEPT !.eff = <<"stat_props", "open_props">>,
                                        !.stderr = r.stderr]
                      w == [binzip_url |-> r.binzip_url, sha256 |-> r.sha256]
                  IN  IF r.error # None
                      THEN [b EXCEPT !.error = r.error]
                      ELSE IF ~RxMatches(r.binzip_url)
                      THEN [b EXCEPT !.error = MsgUnsupportedURL, !.wrapper = w]
                      ELSE lookup(b, RxGroup1(r.binzip_url), w)
        ELSE lookup(base, version, NoWrapper)

(* ------------------------------ the state ----------------------------- *)

VARIABLES
    libdir,     \* the cache directory: "absent" or "dir"
    cache,      \* the files under libdir
    pc,         \* pc[p]: where invocation p is
    opt,        \* opt[p]: the command line (--version, -v) and whether the
                \*   working directory holds gradle-wrapper.properties
    wrapper,    \* wrapper[p]: wrapper_binzip_url, wrapper_sha256 of gradlew()
    target,     \* target[p]: version, binzip_url, sha256 of gradlew()
    tmp,        \* tmp[p]: the temporary directory and the locals of
                \*   download_gradle()
    child,      \* child[p]: the exit status of the launched gradle, -1 if none
    exit,       \* exit[p]: the exit status of the invocation, -1 if none
    stderr,     \* stderr[p]: the lines the invocation wrote to stderr
    eff,        \* eff[p]: the file, network and process operations of the
                \*   invocation and the return of download_gradle, in order
    at,         \* at[p]: the pc at which the invocation was killed
    prev,       \* prev[p]: the previous invocation of p
    runs,       \* the number of invocations started
    read,       \* read[p]: the lines of gradle-wrapper.properties that
                \*   load_wrapper_urls() of invocation p read
    xbit,       \* the files under libdir whose executable bit is set
    zipx,       \* whether the distribution archives record bin/gradle as
                \*   executable
    store,      \* the text of gradle-versions.json
    upd,        \* the call of update_gradle_versions()
    rt,         \* a call of save_gradle_versions() and the call of
                \*   load_gradle_versions() after it
    dl          \* a call of download_file() or sha256_file()

\* the variables of the functions that are followed step by step on their
\* own, and those of the invocations of main()
fnvars == <<store, upd, rt, dl>>
mainvars == <<libdir, cache, pc, opt, wrapper, target, tmp, child, exit,
              stderr, eff, at, prev, runs, read, xbit, zipx>>

vars == <<libdir, cache, pc, opt, wrapper, target, tmp, child, exit, stderr,
          eff, at, prev, runs, read, xbit, zipx, store, upd, rt, dl>>

NoOpt == [version |-> None, verbose |-> FALSE, props |-> FALSE]
NoTmp == [outfile |-> "none", wget |-> FALSE, unzip |-> FALSE,
          dl_sha256 |-> None, member |-> 0, skipped |-> FALSE]
NoPrev == [version |-> None, returned |-> FALSE, fetches |-> 0, extracts |-> 0,
           killed |-> FALSE]

\* the values of --version: not given, empty, and versions
Versions == {None, << >>, V87, V88, V99}

\* the operations of eff that fetch from the network, write under libdir,
\* create the temporary directory, start the extraction
FetchOps == {"wget", "urlopen"}
CacheWriteOps == {"mkdir_libdir", "write", "chmod"}
TmpOps == {"mkdtemp"}
ExtractOps == {"unzip", "extractall"}

\* the places of download_gradle() after the presence check, up to the
\* comparison of the digest
BeforeVerified == {"fetch", "fetching", "verify"}

Has(seq, ops) == \E i \in 1..Len(seq) : seq[i] \in ops
Count(seq, ops) == Cardinality({ i \in 1..Len(seq) : seq[i] \in ops })

\* gradle-versions.json as the repository ships it
ManifestData ==
    << <<V87, VersionRecord(GRADLE_BINZIP_URL(V87), Sha87)>>,
       <<V88, VersionRecord(GRADLE_BINZIP_URL(V88), Sha88)>> >>

NoUpd == [pc |-> "idle", verbose |-> FALSE, index |-> << >>, i |-> 0,
          data |-> << >>, stderr |-> << >>, stdout |-> 0, error |-> None]
NoRt == [pc |-> "idle", data |-> << >>, loaded |-> JsonFail]
NoDl == [pc |-> "idle"]

\* none of the functions of fnvars is being called
FnIdle ==
    /\ store = JsonDump(ManifestData)
    /\ upd = NoUpd
    /\ rt = NoRt
    /\ dl = NoDl

\* no invocation of main() was started and libdir does not exist
MainIdle ==
    /\ libdir = "absent"
    /\ cache = {}
    /\ pc = [p \in Procs |-> "idle"]
    /\ opt = [p \in Procs |-> NoOpt]
    /\ wrapper = [p \in Procs |-> NoWrapper]
    /\ target = [p \in Procs |-> NoTarget]
    /\ tmp = [p \in Procs |-> NoTmp]
    /\ child = [p \in Procs |-> -1]
    /\ exit = [p \in Procs |-> -1]
    /\ stderr = [p \in Procs |-> << >>]
    /\ eff = [p \in Procs |-> << >>]
    /\ at = [p \in Procs |-> "idle"]
    /\ prev = [p \in Procs |-> NoPrev]
    /\ runs = 0
    /\ read = [p \in Procs |-> << >>]
    /\ xbit = {}

Init ==
    /\ MainIdle
    /\ zipx \in BOOLEAN
    /\ FnIdle

(* --------------------------- ends of an invocation -------------------- *)

\* leaving the "with tempfile.TemporaryDirectory()" block removes it
Cleaned(t) == [t EXCEPT !.outfile = "none"]
CleanOps(t) == IF t.outfile = "none" THEN << >> ELSE <<"rmtree_tmp">>

\* the invocation ends with exit status 1, having written lines to stderr
\* and done ops; leaving the "with" block removes the temporary directory
Fail(p, lines, ops) ==
    /\ pc' = [pc EXCEPT ![p] = "exit"]
    /\ exit' = [exit EXCEPT ![p] = 1]
    /\ stderr' = [stderr EXCEPT ![p] = @ \o lines]
    /\ eff' = [eff EXCEPT ![p] = @ \o ops \o CleanOps(tmp[p])]
    /\ tmp' = [tmp EXCEPT ![p] = Cleaned(@)]

\* main(), lines 213-215: an Error is printed on one line and the exit
\* status is 1
RaiseError(p, msg, ops) == Fail(p, << <<"Error", msg>> >>, ops)

\* an exception that is no Error passes main(): python prints a traceback
\* and the exit status is 1
RaiseOther(p, exc, ops) ==
    Fail(p, << <<"Traceback", "most recent call last">>, <<"Exception", exc>> >>,
         ops)

(* ------------------------------- main() ------------------------------- *)

\* what the next invocation of p is told about this one: the version that
\* was resolved, whether download_gradle returned gradle_cmd, how often it
\* fetched and extracted, and whether the process was killed inside
\* download_gradle before the digest was verified
Summary(p) ==
    [version   |-> target[p].version,
     returned  |-> Has(eff[p], {"return_gradle_cmd"}),
     fetches   |-> Count(eff[p], FetchOps),
     extracts  |-> Count(eff[p], ExtractOps),
     killed    |-> pc[p] = "killed" /\ at[p] \in BeforeVerified]

\* every variable of an invocation, at its start
Fresh(p, o) ==
    /\ opt' = [opt EXCEPT ![p] = o]
    /\ pc' = [pc EXCEPT ![p] = "gradlew"]
    /\ wrapper' = [wrapper EXCEPT ![p] = NoWrapper]
    /\ target' = [target EXCEPT ![p] = NoTarget]
    /\ tmp' = [tmp EXCEPT ![p] = NoTmp]
    /\ child' = [child EXCEPT ![p] = -1]
    /\ exit' = [exit EXCEPT ![p] = -1]
    /\ stderr' = [stderr EXCEPT ![p] = << >>]
    /\ eff' = [eff EXCEPT ![p] = << >>]
    /\ at' = [at EXCEPT ![p] = "idle"]
    /\ read' = [read EXCEPT ![p] = << >>]

\* main(), lines 201-212: the first invocation, with any command line
Start(p) ==
    /\ p = 1
    /\ pc[p] = "idle"
    /\ runs < MaxRuns
    /\ runs' = runs + 1
    /\ \E version \in Versions, verbose \in BOOLEAN, props \in BOOLEAN :
          Fresh(p, [version |-> version, verbose |-> verbose, props |-> props])
    /\ UNCHANGED <<libdir, cache, prev>>
    /\ UNCHANGED <<xbit, zipx, fnvars>>

\* main(), lines 201-212: the same command is run again after it ended
Again(p) ==
    /\ p = 1
    /\ pc[p] \in {"exit", "killed"}
    /\ pc[2] = "idle"
    /\ runs < MaxRuns
    /\ runs' = runs + 1
    /\ prev' = [prev EXCEPT ![p] = Summary(p)]
    /\ Fresh(p, opt[p])
    /\ UNCHANGED <<libdir, cache>>
    /\ UNCHANGED <<xbit, zipx, fnvars>>

\* main(), lines 201-212: a second process runs the same command while the
\* first invocation of it is about to enter download_gradle.  The commands
\* run concurrently are those that name their version and are not verbose.
Concurrent(p) ==
    /\ p = 2
    /\ pc[p] = "idle"
    /\ pc[1] = "download_gradle"
    /\ runs = 1
    /\ Truthy(opt[1].version) /\ ~opt[1].verbose /\ ~opt[1].props
    /\ runs < MaxRuns
    /\ runs' = runs + 1
    /\ Fresh(p, opt[1])
    /\ UNCHANGED <<libdir, cache, prev>>
    /\ UNCHANGED <<xbit, zipx, fnvars>>

(* ------------------------------ gradlew() ----------------------------- *)

\* gradlew(), lines 35-51, gradle-wrapper.properties (if there is one)
\* being one of files
GradlewOn(p, files) ==
    /\ pc[p] = "gradlew"
    /\ \E readable \in BOOLEAN :
         IF ~readable
         THEN \* load_gradle_versions(): open() or json.load() raises
              /\ RaiseOther(p, "OSError or JSONDecodeError", <<"load_versions">>)
              /\ UNCHANGED <<wrapper, target, read>>
         ELSE \E lines \in (IF NeedsWrapperProps(opt[p].version) /\ opt[p].props
                            THEN files ELSE {<< >>}) :
                LET r == Resolve(opt[p].version, opt[p].props, lines,
                                 GradleVersionsJson)
                    ops == <<"load_versions">> \o r.eff
                IN  /\ read' = [read EXCEPT ![p] = lines]
                    /\ wrapper' = [wrapper EXCEPT ![p] = r.wrapper]
                    /\ target' = [target EXCEPT ![p] = r.target]
                    /\ IF r.error # None
                       THEN Fail(p, Append(r.stderr, <<"Error", r.error>>), ops)
                       ELSE /\ pc' = [pc EXCEPT ![p] = "download_gradle"]
                            /\ stderr' = [stderr EXCEPT ![p] = @ \o r.stderr]
                            /\ eff' = [eff EXCEPT ![p] = @ \o ops]
                            /\ UNCHANGED <<exit, tmp>>
    /\ UNCHANGED <<libdir, cache, opt, child, at, prev, runs>>
    /\ UNCHANGED <<xbit, zipx, fnvars>>

\* gradlew() in a project whose gradle-wrapper.properties holds each key at
\* most once
Gradlew(p) == GradlewOn(p, PlainFiles)

\* gradlew() in a project with any gradle-wrapper.properties of MaxLines
\* lines
GradlewAny(p) == GradlewOn(p, PropFiles(MaxLines))

(* --------------------------- download_gradle() ------------------------ *)

\* os.path.exists(path) for a path under libdir
Exists(path) == libdir = "dir" /\ path \in cache

\* a download_gradle() without line 60-61
IsCached_Never(version) == FALSE

\* line 60: the distribution counts as cached when gradle_cmd exists
IsCached(version) == Exists(GradleCmd(version))

Verbose(p, line) == IF opt[p].verbose THEN <<line>> ELSE << >>

\* download_gradle(), lines 59-63: the presence check
CheckCached(p) ==
    /\ pc[p] = "download_gradle"
    /\ IF IsCached(target[p].version)
       THEN /\ pc' = [pc EXCEPT ![p] = "run_command"]
            /\ eff' = [eff EXCEPT ![p] = @ \o <<"stat_gradle_cmd", "return_gradle_cmd">>]
            /\ stderr' = stderr
       ELSE /\ pc' = [pc EXCEPT ![p] = "fetch"]
            /\ eff' = [eff EXCEPT ![p] = Append(@, "stat_gradle_cmd")]
            /\ stderr' = [stderr EXCEPT ![p] = @ \o Verbose(p, <<"[DOWNLOAD]", "binzip_url">>)]
    /\ UNCHANGED <<libdir, cache, opt, wrapper, target, tmp, child, exit, at,
                   prev, runs>>
    /\ UNCHANGED <<read, xbit, zipx, fnvars>>

\* a download_gradle() that makes libdir (line 73) before it fetches, and
\* fetches into it
BeginFetch_IntoLibdir(p) ==
    /\ pc[p] = "fetch"
    /\ libdir' = "dir"
    /\ \E wget \in BOOLEAN :
         /\ tmp' = [tmp EXCEPT ![p] = [@ EXCEPT !.outfile = "partial",
                                                !.wget = wget]]
         /\ eff' = [eff EXCEPT ![p] =
                      @ \o <<"mkdir_libdir", IF wget THEN "wget" ELSE "urlopen">>]
         /\ stderr' = [stderr EXCEPT ![p] =
                         @ \o (IF wget THEN Verbose(p, <<"[RUN]", "wget">>)
                               ELSE << >>)]
    /\ pc' = [pc EXCEPT ![p] = "fetching"]
    /\ UNCHANGED <<cache, opt, wrapper, target, child, exit, at, prev, runs>>
    /\ UNCHANGED <<read, xbit, zipx, fnvars>>

\* download_gradle(), lines 64-70: the temporary directory is made and the
\* transfer into gradle.zip begins, by wget when shutil.which finds it
BeginFetch(p) ==
    /\ pc[p] = "fetch"
    /\ \E wget \in BOOLEAN :
         /\ tmp' = [tmp EXCEPT ![p] = [@ EXCEPT !.outfile = "partial",
                                                !.wget = wget]]
         /\ eff' = [eff EXCEPT ![p] =
                      @ \o <<"mkdtemp", IF wget THEN "wget" ELSE "urlopen">>]
         /\ stderr' = [stderr EXCEPT ![p] =
                         @ \o (IF wget THEN Verbose(p, <<"[RUN]", "wget">>)
                               ELSE << >>)]
    /\ pc' = [pc EXCEPT ![p] = "fetching"]
    /\ UNCHANGED <<libdir, cache, opt, wrapper, target, child, exit, at, prev,
                   runs>>
    /\ UNCHANGED <<read, xbit, zipx, fnvars>>

\* what a failed transfer raises: run_command turns wget's exit status into
\* an Error (lines 195-196); download_file lets urlopen's exception pass
FetchFailure(p, wget) ==
    IF wget
    THEN RaiseError(p, <<"wget command failed">>, << >>)
    ELSE RaiseOther(p, "URLError", << >>)

\* the digest of the file that was fetched: sha256_file(outfile) after wget
\* (line 68), the running digest of download_file (line 70)
DlSha256(wget, content) == Sha256(content)

\* download_gradle(), lines 67-70: the transfer ends, with the bytes the
\* server sent or with a network failure
EndFetch(p) ==
    /\ pc[p] = "fetching"
    /\ \E sent \in Contents \cup {"failure"} :
         IF sent = "failure"
         THEN /\ FetchFailure(p, tmp[p].wget)
         ELSE /\ tmp' = [tmp EXCEPT ![p] =
                           [@ EXCEPT !.outfile = sent,
                                     !.dl_sha256 = DlSha256(tmp[p].wget, sent)]]
              /\ pc' = [pc EXCEPT ![p] = "verify"]
              /\ eff' = [eff EXCEPT ![p] =
                           @ \o (IF tmp[p].wget THEN <<"read_outfile">> ELSE << >>)]
              /\ UNCHANGED <<exit, stderr>>
    /\ UNCHANGED <<libdir, cache, opt, wrapper, target, child, at, prev, runs>>
    /\ UNCHANGED <<read, xbit, zipx, fnvars>>

\* a download_gradle() without lines 71-72
DigestDisagrees_Never(dl_sha256, sha256) == FALSE

\* line 71
DigestDisagrees(dl_sha256, sha256) == dl_sha256 # sha256

\* download_gradle(), lines 71-72: the digest is compared
Verify(p) ==
    /\ pc[p] = "verify"
    /\ IF DigestDisagrees(tmp[p].dl_sha256, target[p].sha256)
       THEN RaiseError(p, MsgActualShaMismatch, << >>)
       ELSE /\ pc' = [pc EXCEPT ![p] = "mkdir"]
            /\ UNCHANGED <<exit, stderr, eff, tmp>>
    /\ UNCHANGED <<libdir, cache, opt, wrapper, target, child, at, prev, runs>>
    /\ UNCHANGED <<read, xbit, zipx, fnvars>>

\* download_gradle(), lines 73-78: libdir is made if absent and the
\* extraction begins, by unzip when shutil.which finds it.  Path.mkdir
\* raises when the parent of libdir is missing or may not be written.
Mkdir(p) ==
    /\ pc[p] = "mkdir"
    /\ \E made \in (IF libdir = "absent" THEN BOOLEAN ELSE {TRUE}),
          unzip \in BOOLEAN :
         IF ~made
         THEN /\ RaiseOther(p, "FileNotFoundError or PermissionError", << >>)
              /\ UNCHANGED libdir
         ELSE /\ libdir' = "dir"
              /\ tmp' = [tmp EXCEPT ![p] = [@ EXCEPT !.unzip = unzip, !.member = 1]]
              /\ eff' = [eff EXCEPT ![p] =
                           @ \o <<"mkdir_libdir", IF unzip THEN "unzip" ELSE "extractall">>]
              /\ stderr' = [stderr EXCEPT ![p] =
                              @ \o Verbose(p, IF unzip THEN <<"[RUN]", "unzip">>
                                              ELSE <<"[UNZIP]", "path=libdir">>)]
              /\ pc' = [pc EXCEPT ![p] = "extract"]
              /\ UNCHANGED exit
    /\ UNCHANGED <<cache, opt, wrapper, target, child, at, prev, runs>>
    /\ UNCHANGED <<read, xbit, zipx, fnvars>>

\* the files with the executable bit after member m was written: unzip
\* sets the mode that the archive records, zipfile makes a new file without
\* the bit and leaves the mode of a file that exists
ModeAfter(unzip, m, version) ==
    IF ~unzip THEN xbit
    ELSE IF m = GradleCmd(version) /\ zipx THEN xbit \cup {m}
    ELSE xbit \ {m}

\* download_gradle(), lines 75 and 80-81: the next member of the archive.
\* zipfile overwrites a file that exists; unzip asks, and overwrites or
\* skips it
ExtractMember(p) ==
    /\ pc[p] = "extract"
    /\ tmp[p].member <= Len(ZipMembers(tmp[p].outfile))
    /\ LET m == ZipMembers(tmp[p].outfile)[tmp[p].member]
       IN  \E skip \in (IF tmp[p].unzip /\ m \in cache THEN BOOLEAN ELSE {FALSE}) :
             IF skip
             THEN /\ tmp' = [tmp EXCEPT ![p] = [@ EXCEPT !.member = @ + 1,
                                                         !.skipped = TRUE]]
                  /\ UNCHANGED <<cache, xbit, eff>>
             ELSE /\ tmp' = [tmp EXCEPT ![p] = [@ EXCEPT !.member = @ + 1]]
                  /\ cache' = cache \cup {m}
                  /\ xbit' = ModeAfter(tmp[p].unzip, m, target[p].version)
                  /\ eff' = [eff EXCEPT ![p] = Append(@, "write")]
    /\ UNCHANGED <<libdir, pc, opt, wrapper, target, child, exit, stderr, at,
                   prev, runs>>
    /\ UNCHANGED <<read, zipx, fnvars>>

\* download_gradle(), lines 75 and 82-83: the extraction ends.  unzip exits
\* with 0, or with another status when it skipped a member; after zipfile
\* gradle_cmd is made executable.  The temporary directory is removed.
EndExtract(p) ==
    /\ pc[p] = "extract"
    /\ tmp[p].member > Len(ZipMembers(tmp[p].outfile))
    /\ \E status \in (IF tmp[p].unzip /\ tmp[p].skipped THEN {0, 1} ELSE {0}) :
         IF status # 0
         THEN /\ RaiseError(p, <<"unzip command failed">>, << >>)
              /\ UNCHANGED xbit
         ELSE IF ~tmp[p].unzip /\ ~Exists(GradleCmd(target[p].version))
         THEN \* os.chmod raises FileNotFoundError
              /\ RaiseOther(p, "FileNotFoundError", << >>)
              /\ UNCHANGED xbit
         ELSE /\ pc' = [pc EXCEPT ![p] = "run_command"]
              /\ xbit' = (IF tmp[p].unzip THEN xbit
                          ELSE xbit \cup {GradleCmd(target[p].version)})
              /\ eff' = [eff EXCEPT ![p] =
                           @ \o (IF tmp[p].unzip THEN << >> ELSE <<"chmod">>)
                             \o <<"rmtree_tmp", "return_gradle_cmd">>]
              /\ tmp' = [tmp EXCEPT ![p] = Cleaned(@)]
              /\ UNCHANGED <<exit, stderr>>
    /\ UNCHANGED <<libdir, cache, opt, wrapper, target, child, at, prev, runs>>
    /\ UNCHANGED <<read, zipx, fnvars>>

(* ------------------------------ run_command() ------------------------- *)

\* gradlew() line 53, run_command() lines 191-198: gradle is launched.
\* subprocess.run raises FileNotFoundError for a file that is missing, which
\* run_command makes an Error, and PermissionError for a file that is not
\* executable, which it does not catch.
Launch(p) ==
    /\ pc[p] = "run_command"
    /\ IF ~Exists(GradleCmd(target[p].version))
       THEN RaiseError(p, <<"gradle command not found">>, << >>)
       ELSE IF GradleCmd(target[p].version) \notin xbit
       THEN RaiseOther(p, "PermissionError", << >>)
       ELSE /\ pc' = [pc EXCEPT ![p] = "running"]
            /\ stderr' = [stderr EXCEPT ![p] = @ \o Verbose(p, <<"[RUN]", "gradle">>)]
            /\ eff' = [eff EXCEPT ![p] = Append(@, "launch")]
            /\ UNCHANGED <<exit, tmp>>
    /\ UNCHANGED <<libdir, cache, opt, wrapper, target, child, at, prev, runs>>
    /\ UNCHANGED <<read, xbit, zipx, fnvars>>

\* the exit status of the invocation after gradle exited with status:
\* subprocess.run(check=True) raises CalledProcessError for a status other
\* than 0, run_command makes it an Error and main() exits with 1
ExitAfterChild(status) == IF status = 0 THEN 0 ELSE 1

\* run_command() lines 194-196 and main(): gradle exits
ChildExits(p) ==
    /\ pc[p] = "running"
    /\ \E status \in 0..MaxChildExit :
         /\ child' = [child EXCEPT ![p] = status]
         /\ pc' = [pc EXCEPT ![p] = "exit"]
         /\ exit' = [exit EXCEPT ![p] = ExitAfterChild(status)]
         /\ stderr' = [stderr EXCEPT ![p] =
                         IF status = 0 THEN @
                         ELSE Append(@, <<"Error", <<"gradle command failed">>>>)]
    /\ UNCHANGED <<libdir, cache, opt, wrapper, target, tmp, eff, at, prev, runs>>
    /\ UNCHANGED <<read, xbit, zipx, fnvars>>

\* the process is killed: nothing is cleaned up
Kill(p) ==
    /\ pc[p] \notin {"idle", "exit", "killed"}
    /\ at' = [at EXCEPT ![p] = pc[p]]
    /\ pc' = [pc EXCEPT ![p] = "killed"]
    /\ UNCHANGED <<libdir, cache, opt, wrapper, target, tmp, child, exit,
                   stderr, eff, prev, runs>>
    /\ UNCHANGED <<read, xbit, zipx, fnvars>>

Next ==
    \E p \in Procs :
        \/ Start(p)
        \/ Again(p)
        \/ Concurrent(p)
        \/ Gradlew(p)
        \/ CheckCached(p)
        \/ BeginFetch(p)
        \/ EndFetch(p)
        \/ Verify(p)
        \/ Mkdir(p)
        \/ ExtractMember(p)
        \/ EndExtract(p)
        \/ Launch(p)
        \/ ChildExits(p)
        \/ Kill(p)

Spec == Init /\ [][Next]_vars

\* the resolution alone, over every gradle-wrapper.properties
NextResolve == Start(1) \/ GradlewAny(1)

SpecResolve == Init /\ [][NextResolve]_vars

(* ----------------------- update_gradle_versions() --------------------- *)

\* GRADLE_SHA256_URL.format(version)
GRADLE_SHA256_URL(version) ==
    DistPrefix \o version \o <<"-bin", ".", "zip", ".", "sha256">>

OtherUrl == <<"http", ":", "//example.org/gradle-8.7-bin.zip">>

\* the entries of the index at GRADLE_VERSIONS_ALL_URL
IndexEntries ==
    { [nightly |-> k[1], snapshot |-> k[2], version |-> v,
       downloadUrl |-> IF u = "bad_download" THEN OtherUrl
                       ELSE GRADLE_BINZIP_URL(v),
       checksumUrl |-> IF u = "bad_checksum" THEN OtherUrl
                       ELSE GRADLE_SHA256_URL(v)] :
        k \in {<<FALSE, FALSE>>, <<TRUE, FALSE>>, <<FALSE, TRUE>>},
        v \in {V87, V88},
        u \in {"ok", "bad_download", "bad_checksum"} }

Indexes(n) == UNION { [1..k -> IndexEntries] : k \in 0..n }

\* the length of the hex form of a SHA-256
ShaHexLen == 64

HexDigits == {"0", "1", "2", "3", "4", "5", "6", "7", "8", "9",
              "a", "b", "c", "d", "e", "f"}

\* the bodies that a checksum URL answers with, character by character: a
\* run of the digit 0 and one last character, of a length about ShaHexLen
ShaBodies ==
    { << >> } \cup
    { [i \in 1..n |-> IF i = n THEN last ELSE "0"] :
        n \in {ShaHexLen - 1, ShaHexLen, ShaHexLen + 1},
        last \in {"f", "F", "\n"} }

\* line 153, as python reads it: "not" binds tighter than "and"
ShaRejected(sha256) ==
    /\ ~(Len(sha256) = ShaHexLen)
    /\ \A i \in 1..Len(sha256) : sha256[i] \in HexDigits

\* an update that keeps the snapshots
Skipped_OnlyNightly(vsn) == vsn.nightly

\* line 130
Skipped(vsn) == vsn.nightly \/ vsn.snapshot

\* the call has failed with an exception
UpdRaise(exc) ==
    upd' = [upd EXCEPT !.pc = "failed", !.error = exc]

\* update_gradle_versions(), lines 127-129: the index is fetched and parsed
UpdateStart ==
    /\ upd.pc = "idle"
    /\ \E verbose \in BOOLEAN, answered \in BOOLEAN :
         IF ~answered
         THEN upd' = [upd EXCEPT !.pc = "failed", !.verbose = verbose,
                                 !.error = <<"URLError">>]
         ELSE \E index \in Indexes(MaxIndex) :
                upd' = [upd EXCEPT !.pc = "loop", !.verbose = verbose,
                                   !.index = index, !.i = 1]
    /\ UNCHANGED <<store, rt, dl, mainvars>>

\* update_gradle_versions(), lines 129-146, and _gradle_sha256(): one entry
\* of the index
UpdateEntry ==
    /\ upd.pc = "loop"
    /\ upd.i <= Len(upd.index)
    /\ LET vsn == upd.index[upd.i]
           skip(lines) == upd' = [upd EXCEPT !.i = @ + 1,
                                             !.stderr = @ \o lines]
       IN  IF Skipped(vsn)
           THEN skip(<< >>)
           ELSE IF GRADLE_BINZIP_URL(vsn.version) # vsn.downloadUrl
           THEN skip(<< <<"Warning", "skipping bad URL", vsn.downloadUrl>> >>)
           ELSE IF GRADLE_SHA256_URL(vsn.version) # vsn.checksumUrl
           THEN skip(<< <<"Warning", "skipping bad URL", vsn.checksumUrl>> >>)
           ELSE IF vsn.version \in Keys(upd.data)
           THEN UpdRaise(<<"Error", "Duplicate version">>)
           ELSE \E answered \in BOOLEAN, body \in ShaBodies :
                  IF ~answered
                  THEN UpdRaise(<<"URLError">>)
                  ELSE IF ShaRejected(body)
                  THEN UpdRaise(<<"Error", "Malformed SHA-256">>)
                  ELSE upd' = [upd EXCEPT
                                 !.i = @ + 1,
                                 !.stdout = IF upd.verbose THEN @ + 1 ELSE @,
                                 !.data = Put(@, vsn.version,
                                              VersionRecord(vsn.downloadUrl, body))]
    /\ UNCHANGED <<store, rt, dl, mainvars>>

\* save_gradle_versions(), lines 120-122
Saved(data) == JsonDump(data)

\* update_gradle_versions(), line 147: the loop has ended and data is saved
UpdateSave ==
    /\ upd.pc = "loop"
    /\ upd.i > Len(upd.index)
    /\ store' = Saved(upd.data)
    /\ upd' = [upd EXCEPT !.pc = "done"]
    /\ UNCHANGED <<rt, dl, mainvars>>

\* update_gradle_versions() is called once, gradle-versions.json being the
\* one shipped or an empty one
InitUpdate ==
    /\ MainIdle
    /\ zipx = TRUE
    /\ store \in {JsonDump(ManifestData), JsonDump(<< >>)}
    /\ upd = NoUpd
    /\ rt = NoRt
    /\ dl = NoDl

NextUpdate == UpdateStart \/ UpdateEntry \/ UpdateSave

SpecUpdate == InitUpdate /\ [][NextUpdate]_vars

(* -------------------- download_file(), sha256_file() ------------------ *)

\* Byte strings are sequences of runs <<byte, count>>, count > 0, adjacent
\* runs of different bytes.
Size(bytes) ==
    LET sum[i \in 0..Len(bytes)] == IF i = 0 THEN 0 ELSE sum[i - 1] + bytes[i][2]
    IN  sum[Len(bytes)]

\* a \o b for byte strings
Cat_Second(a, b) == b

Cat(a, b) ==
    IF a = << >> THEN b
    ELSE IF b = << >> THEN a
    ELSE IF a[Len(a)][1] = b[1][1]
    THEN SubSeq(a, 1, Len(a) - 1)
           \o << <<b[1][1], a[Len(a)][2] + b[1][2]>> >> \o Tail(b)
    ELSE a \o b

\* bytes[:n]
RECURSIVE FirstBytes(_, _)
FirstBytes(bytes, n) ==
    IF n = 0 \/ bytes = << >> THEN << >>
    ELSE IF bytes[1][2] <= n
    THEN <<bytes[1]>> \o FirstBytes(Tail(bytes), n - bytes[1][2])
    ELSE << <<bytes[1][1], n>> >>

\* bytes[n:]
RECURSIVE AfterBytes(_, _)
AfterBytes(bytes, n) ==
    IF n = 0 \/ bytes = << >> THEN bytes
    ELSE IF bytes[1][2] <= n THEN AfterBytes(Tail(bytes), n - bytes[1][2])
    ELSE << <<bytes[1][1], bytes[1][2] - n>> >> \o Tail(bytes)

\* the size of the reads of download_file
DownloadChunk == 4096
\* the size of the reads of sha256_file
FileChunk == 4096

\* SHA-256 of no bytes, as the doctest of sha256_file has it
EmptyDigest == <<"e3b0c44298fc1c149afbf4c8996fb92427ae41e4649b934ca495991b7852b855">>

\* sha.hexdigest() of a hash object that was fed msg: SHA-256 is taken to
\* be free of collisions
hexdigest(msg) == IF msg = << >> THEN EmptyDigest ELSE <<"sha256", msg>>

\* the byte strings downloaded and hashed: of every length next to a
\* multiple of the chunk size, of one byte or changing byte after the
\* first byte or the first chunk
ByteStrings ==
    LET lengths == { k * DownloadChunk + d : k \in 0..MaxChunks, d \in {-1, 0, 1} }
                     \cap Nat
    IN  UNION { { Cat(FirstBytes(<< <<"a", n>> >>, m),
                      FirstBytes(<< <<"b", n>> >>, n - m)) :
                    m \in { k \in {0, 1, DownloadChunk} : k <= n } } :
                n \in lengths }

\* how many bytes fh.read(size) returns when left are left: all that was
\* asked for or, from a socket, fewer
ReadSizes(size, left, short) ==
    LET full == IF left < size THEN left ELSE size
    IN  {full} \cup (IF short THEN { n \in {1, size - 1} : n < full } ELSE {})

NoCall == [pc |-> "idle", content |-> << >>, file |-> << >>, pos |-> 0,
           sha |-> << >>, short |-> 0, ret |-> None, dl_ret |-> None]

\* download_file(), lines 165-167: outfile is opened for writing, which
\* truncates it, then the URL is opened
DownloadStart ==
    /\ dl.pc = "idle"
    /\ \E content \in ByteStrings, opened \in BOOLEAN :
         dl' = [NoCall EXCEPT !.pc = IF opened THEN "download_file" ELSE "raised",
                              !.content = content]
    /\ UNCHANGED <<mainvars, store, upd, rt>>

\* download_file(), lines 168-170: one turn of the loop
DownloadRead ==
    /\ dl.pc = "download_file"
    /\ dl.pos < Size(dl.content)
    /\ \E n \in ReadSizes(DownloadChunk, Size(dl.content) - dl.pos,
                          dl.short < MaxShort) :
         LET chunk == FirstBytes(AfterBytes(dl.content, dl.pos), n)
             left == Size(dl.content) - dl.pos
         IN  dl' = [dl EXCEPT !.pos = @ + n,
                              !.file = Cat(@, chunk),
                              !.sha = Cat(@, chunk),
                              !.short = IF n < DownloadChunk /\ n < left
                                        THEN @ + 1 ELSE @]
    /\ UNCHANGED <<mainvars, store, upd, rt>>

\* download_file(), line 168: the connection breaks, fhi.read() raises
DownloadBreaks ==
    /\ dl.pc = "download_file"
    /\ dl.pos < Size(dl.content)
    /\ dl' = [dl EXCEPT !.pc = "raised"]
    /\ UNCHANGED <<mainvars, store, upd, rt>>

\* download_file(), lines 168 and 171: fhi.read() returns no bytes
DownloadReturn ==
    /\ dl.pc = "download_file"
    /\ dl.pos = Size(dl.content)
    /\ dl' = [dl EXCEPT !.pc = "downloaded", !.ret = hexdigest(dl.sha),
                        !.dl_ret = hexdigest(dl.sha)]
    /\ UNCHANGED <<mainvars, store, upd, rt>>

\* sha256_file(), lines 182-183, of the file that download_file wrote or
\* of another file
Sha256Start ==
    /\ \/ /\ dl.pc = "downloaded"
          /\ dl' = [dl EXCEPT !.pc = "sha256_file", !.pos = 0, !.sha = << >>,
                              !.ret = None]
       \/ /\ dl.pc = "idle"
          /\ \E content \in ByteStrings :
               dl' = [NoCall EXCEPT !.pc = "sha256_file", !.content = content,
                                    !.file = content]
    /\ UNCHANGED <<mainvars, store, upd, rt>>

\* sha256_file(), lines 184-185: one turn of the loop
Sha256Read ==
    /\ dl.pc = "sha256_file"
    /\ dl.pos < Size(dl.file)
    /\ \E n \in ReadSizes(FileChunk, Size(dl.file) - dl.pos, FALSE) :
         dl' = [dl EXCEPT !.pos = @ + n,
                          !.sha = Cat(@, FirstBytes(AfterBytes(dl.file, dl.pos), n))]
    /\ UNCHANGED <<mainvars, store, upd, rt>>

\* sha256_file(), lines 184 and 186: fh.read() returns no bytes
Sha256Return ==
    /\ dl.pc = "sha256_file"
    /\ dl.pos = Size(dl.file)
    /\ dl' = [dl EXCEPT !.pc = "hashed", !.ret = hexdigest(dl.sha)]
    /\ UNCHANGED <<mainvars, store, upd, rt>>

NextDigest ==
    \/ DownloadStart \/ DownloadRead \/ DownloadBreaks \/ DownloadReturn
    \/ Sha256Start \/ Sha256Read \/ Sha256Return

\* no function is being called
InitDigest == MainIdle /\ zipx = TRUE /\ FnIdle

SpecDigest == InitDigest /\ [][NextDigest]_vars

(* ------------- save_gradle_versions(), load_gradle_versions() --------- *)

\* the strings saved as URLs and checksums: of the characters that
\* json.dump escapes (the quote, the backslash, a control character, a
\* character that is not ASCII) and of the letter that an escape is written
\* with, the backslash before it and as the last character
Strs ==
    {<< >>, <<Quote>>, <<Backslash, "n">>, <<"\n", "é", Backslash>>}

\* the strings saved as versions
VersionStrs == {V87, <<Quote, "n">>, <<Backslash>>}

\* the versions of a mapping of at most n entries, in every order of
\* insertion
VersionSeqs(n) ==
    { keys \in UNION { [1..k -> VersionStrs] : k \in 0..n } :
        \A i, j \in 1..Len(keys) : keys[i] = keys[j] => i = j }

\* the mapping of the versions keys to the records of the URLs and
\* checksums in strs
Mapping(keys, strs) ==
    [i \in 1..Len(keys) |->
        <<keys[i], VersionRecord(strs[i][1], strs[i][2])>>]

\* save_gradle_versions(data), lines 120-122
SaveVersions ==
    /\ rt.pc = "idle"
    /\ \E keys \in VersionSeqs(MaxEntries) :
         \E strs \in [1..Len(keys) -> Strs \X Strs] :
            LET data == Mapping(keys, strs)
            IN  /\ store' = Saved(data)
                /\ rt' = [rt EXCEPT !.pc = "saved", !.data = data]
    /\ UNCHANGED <<mainvars, upd, dl>>

\* load_gradle_versions(), lines 114-115, after it
LoadVersions ==
    /\ rt.pc = "saved"
    /\ rt' = [rt EXCEPT !.pc = "loaded", !.loaded = JsonLoad(store)]
    /\ UNCHANGED <<mainvars, store, upd, dl>>

NextManifest == SaveVersions \/ LoadVersions

SpecManifest == InitDigest /\ [][NextManifest]_vars

(* ------------------------------- claims ------------------------------- *)

Last(seq) == seq[Len(seq)]

\* the message of the "Error: ..." line that ended invocation p, or None
ErrorOf(p) ==
    IF pc[p] = "exit" /\ exit[p] = 1 /\ stderr[p] # << >>
       /\ Last(stderr[p])[1] = "Error"
    THEN Last(stderr[p])[2] ELSE None

\* invocation p ended with an exception that main() does not catch
Crashed(p) ==
    pc[p] = "exit" /\ stderr[p] # << >> /\ Last(stderr[p])[1] = "Exception"

ErrorLines(p) == { i \in 1..Len(stderr[p]) : stderr[p][i][1] = "Error" }

\* C1: whenever gradle was launched and has exited, the exit status of the
\* invocation is the exit status of gradle, zero or not.
C1_ExitStatusIsChildStatus ==
    \A p \in Procs :
        (pc[p] = "exit" /\ child[p] # -1) => exit[p] = child[p]

\* The version of the distribution that gradle-wrapper.properties of
\* invocation p names, when its distributionUrl matches the URL pattern.
WrapperVersion(p) == RxGroup1(wrapper[p].binzip_url)

\* gradle-wrapper.properties of p declares a URL equal to the manifest's
\* for the version in it, and a checksum that differs from the manifest's
DeclaresOtherChecksum(p) ==
    /\ ~Truthy(opt[p].version)
    /\ Truthy(wrapper[p].binzip_url)
    /\ RxMatches(wrapper[p].binzip_url)
    /\ WrapperVersion(p) \in DOMAIN GradleVersionsJson
    /\ GradleVersionsJson[WrapperVersion(p)].binzip_url = wrapper[p].binzip_url
    /\ Truthy(wrapper[p].sha256)
    /\ GradleVersionsJson[WrapperVersion(p)].sha256 # wrapper[p].sha256

\* C2: with no version given, a declared checksum that differs from the
\* manifest's (the URLs agreeing) ends the invocation with the SHA-256
\* mismatch error of line 51, and up to then the invocation reached no
\* network, made no temporary file, wrote nothing under libdir and launched
\* nothing.
C2_ChecksumMismatchBeforeAnyEffect ==
    \A p \in Procs :
        DeclaresOtherChecksum(p) =>
            /\ pc[p] = "exit" /\ exit[p] = 1
            /\ ErrorOf(p) = MsgPropsShaMismatch
            /\ Cardinality(ErrorLines(p)) = 1
            /\ ~Has(eff[p], FetchOps \cup TmpOps \cup CacheWriteOps \cup {"launch"})
            /\ tmp[p] = NoTmp
            /\ target[p] = NoTarget

C2_Witness ==
    \E p \in Procs :
        /\ DeclaresOtherChecksum(p)
        /\ pc[p] = "exit"
        /\ Has(eff[p], {"open_props"})

\* the version that invocation p resolves: the one given, else the one in
\* the URL of gradle-wrapper.properties
ResolvedVersion(p) ==
    IF Truthy(opt[p].version) THEN opt[p].version ELSE WrapperVersion(p)

\* gradlew() of p has come to the cross-validation of lines 46-51: the
\* manifest was loaded, a version was selected and the manifest holds it
CrossValidated(p) ==
    /\ pc[p] \in {"download_gradle", "exit"}
    /\ ~Crashed(p)
    /\ Truthy(opt[p].version)
         \/ (Truthy(wrapper[p].binzip_url) /\ RxMatches(wrapper[p].binzip_url))
    /\ ResolvedVersion(p) \in DOMAIN GradleVersionsJson

\* C3: once the version is resolved against the manifest, a declared URL
\* that differs from the manifest's gives the URL mismatch error; else a
\* declared checksum that differs gives the SHA-256 mismatch error; else
\* (each absent, or equal) download_gradle is entered with the URL and the
\* checksum of the manifest.  No value of the descriptor replaces one of
\* the manifest.
C3_CrossValidation ==
    \A p \in Procs :
        CrossValidated(p) =>
            LET w == wrapper[p]
                m == GradleVersionsJson[ResolvedVersion(p)]
            IN  IF Truthy(w.binzip_url) /\ w.binzip_url # m.binzip_url
                THEN ErrorOf(p) = MsgURLMismatch /\ target[p] = NoTarget
                ELSE IF Truthy(w.sha256) /\ w.sha256 # m.sha256
                THEN ErrorOf(p) = MsgPropsShaMismatch /\ target[p] = NoTarget
                ELSE /\ pc[p] = "download_gradle"
                     /\ target[p] = [version |-> ResolvedVersion(p),
                                     binzip_url |-> m.binzip_url,
                                     sha256 |-> m.sha256]

C3_Witness ==
    \E p \in Procs :
        /\ CrossValidated(p)
        /\ wrapper[p].sha256 = None
        /\ wrapper[p].binzip_url # GradleVersionsJson[ResolvedVersion(p)].binzip_url
        /\ ErrorOf(p) = MsgURLMismatch

\* C8: when a version is given, gradle-wrapper.properties is neither looked
\* for nor opened, nothing of it is compared, and the resolution succeeds
\* with the manifest's record exactly when the manifest holds the version,
\* whether or not the file exists.
C8_OverrideSkipsDescriptor ==
    \A p \in Procs :
        (Truthy(opt[p].version) /\ pc[p] \in {"download_gradle", "exit"}
                                /\ ~Crashed(p)) =>
            /\ ~Has(eff[p], {"stat_props", "open_props"})
            /\ wrapper[p] = NoWrapper
            /\ stderr[p] # << >> => ErrorOf(p) = MsgUnknownVersion
            /\ IF opt[p].version \in DOMAIN GradleVersionsJson
               THEN /\ pc[p] = "download_gradle"
                    /\ target[p] =
                         [version |-> opt[p].version,
                          binzip_url |-> GradleVersionsJson[opt[p].version].binzip_url,
                          sha256 |-> GradleVersionsJson[opt[p].version].sha256]
               ELSE ErrorOf(p) = MsgUnknownVersion

C8_Witness ==
    \E p \in Procs :
        /\ Truthy(opt[p].version)
        /\ ~opt[p].props
        /\ pc[p] = "download_gradle"
        /\ target[p].version = opt[p].version

\* the digest of the file that p fetched is not the expected checksum
DigestMismatch(p) ==
    tmp[p].dl_sha256 # None /\ tmp[p].dl_sha256 # target[p].sha256

C4_State(p) ==
    DigestMismatch(p) =>
        /\ pc[p] \in {"verify", "exit", "killed"}
        /\ pc[p] = "exit" =>
             (exit[p] = 1 /\ ErrorOf(p) = MsgActualShaMismatch)
        /\ Count(eff[p], FetchOps) = 1
        /\ ~Has(eff[p], CacheWriteOps \cup ExtractOps \cup {"launch"})

C4_Step(p) ==
    (DigestMismatch(p) /\ pc'[p] # pc[p]) => UNCHANGED <<libdir, cache>>

\* C4: when the digest of the fetched file is not the expected checksum,
\* download_gradle ends with the SHA-256 mismatch error of line 72; no step
\* of the invocation creates libdir or writes under it, whichever transport
\* fetched the file, and the file was fetched once.
C4_MismatchLeavesCacheAlone ==
    [][\A p \in Procs : C4_State(p)' /\ C4_Step(p)]_vars

C4_Witness ==
    \E p \in Procs :
        /\ DigestMismatch(p)
        /\ tmp[p].wget
        /\ pc[p] = "exit"
        /\ libdir = "absent"

C5_Step(p) ==
    (pc[p] \in BeforeVerified /\ pc'[p] # pc[p]) => UNCHANGED <<libdir, cache>>

C5_Killed(p) ==
    (pc[p] = "killed" /\ at[p] \in BeforeVerified) =>
        /\ ~Has(eff[p], CacheWriteOps)
        /\ at[p] # "fetch" => tmp[p].outfile # "none"
        /\ (\A q \in Procs \ {p} : pc[q] = "idle") =>
              GradleCmd(target[p].version) \notin cache

C5_Later(p) ==
    (prev[p].killed /\ prev[p].version = target[p].version
                    /\ Has(eff[p], {"stat_gradle_cmd"})) =>
        /\ ~Has(eff[p], {"return_gradle_cmd"}) \/ Has(eff[p], FetchOps)
        /\ pc[p] # "run_command" \/ Has(eff[p], FetchOps)

\* C5: no step of an invocation between its presence check and the
\* verification of the digest changes libdir; when the process is killed
\* there, the bytes fetched so far are in the temporary directory only and
\* gradle_cmd does not exist, and the next invocation for that version
\* finds gradle_cmd absent and fetches again.
C5_KilledDownloadIsNotCached ==
    [][\A p \in Procs : C5_Step(p) /\ C5_Killed(p)' /\ C5_Later(p)']_vars

C5_Witness ==
    \E p \in Procs :
        /\ prev[p].killed
        /\ prev[p].version = target[p].version
        /\ pc[p] = "fetching"

\* C6: after a call of download_gradle that returned, the next call for the
\* same version returns gradle_cmd at once: it fetches nothing, extracts
\* nothing and makes no temporary directory, so the two calls together
\* fetched and extracted once if the first had to, and never otherwise.
C6_SecondCallDoesNothing ==
    \A p \in Procs :
        (prev[p].returned /\ prev[p].version = target[p].version
                          /\ Has(eff[p], {"stat_gradle_cmd"})) =>
            /\ Has(eff[p], {"return_gradle_cmd"})
            /\ ~Has(eff[p], FetchOps \cup ExtractOps \cup TmpOps \cup CacheWriteOps)
            /\ tmp[p] = NoTmp
            /\ prev[p].fetches + Count(eff[p], FetchOps) <= 1
            /\ prev[p].extracts + Count(eff[p], ExtractOps) = prev[p].fetches

C6_Witness ==
    \E p \in Procs :
        /\ prev[p].returned
        /\ prev[p].fetches = 1
        /\ prev[p].version = target[p].version
        /\ pc[p] = "run_command"

C7_Step(p) ==
    (/\ pc[p] = "download_gradle"
     /\ libdir = "dir"
     /\ GradleCmd(target[p].version) \in cache
     /\ pc'[p] # pc[p]) =>
        /\ pc'[p] \in {"run_command", "killed"}
        /\ UNCHANGED <<libdir, cache, tmp, stderr>>
        /\ pc'[p] = "run_command" =>
             eff'[p] = eff[p] \o <<"stat_gradle_cmd", "return_gradle_cmd">>

\* C7: when gradle_cmd exists as download_gradle is entered, the call
\* returns it having only tested its existence: libdir and the files under
\* it are unchanged, no temporary directory is made, nothing is fetched or
\* printed, verbose or not.
C7_CacheHitChangesNothing ==
    [][\A p \in Procs : C7_Step(p)]_vars

C7_Witness ==
    \E p \in Procs :
        /\ opt[p].verbose
        /\ pc[p] = "run_command"
        /\ Has(eff[p], {"return_gradle_cmd"})
        /\ ~Has(eff[p], FetchOps)

\* the distribution whose digest the manifest records for a version
ZipOf(version) ==
    CHOOSE c \in Contents : Sha256(c) = GradleVersionsJson[version].sha256

\* every member of the distribution of a version is extracted under libdir
Complete(version) ==
    \A i \in 1..Len(ZipMembers(ZipOf(version))) :
        ZipMembers(ZipOf(version))[i] \in cache

\* C9: when two invocations for the same version run concurrently and
\* neither is killed, gradle is never launched from a distribution that is
\* not completely extracted, an invocation whose extraction fails ends with
\* an "Error:" line, and once both have ended and one of them returned
\* gradle_cmd the distribution is completely extracted.
C9_ConcurrentDownloadsAreSafe ==
    (pc[2] # "idle" /\ \A p \in Procs : pc[p] # "killed") =>
        /\ \A p \in Procs :
              pc[p] = "running" => Complete(target[p].version)
        /\ \A p \in Procs :
              (pc[p] = "exit" /\ Has(eff[p], ExtractOps)
                              /\ ~Has(eff[p], {"return_gradle_cmd"})) =>
                  ErrorOf(p) # None
        /\ ((\A p \in Procs : pc[p] = "exit")
              /\ \E p \in Procs : Has(eff[p], {"return_gradle_cmd"})) =>
                  Complete(target[1].version)

\* the transfer of invocation p failed
FetchFailed(p) ==
    pc[p] = "exit" /\ Has(eff[p], FetchOps) /\ tmp[p].dl_sha256 = None

\* C10: the two transports cannot be told apart: a transfer that succeeds
\* leaves the digest of the bytes sent, and a transfer that fails ends the
\* invocation after one attempt with exit status 1 and one "Error:" line,
\* whether wget or download_file made it.
C10_TransportsEquivalent ==
    /\ \A p \in Procs :
          (tmp[p].outfile \in Contents) =>
              tmp[p].dl_sha256 = Sha256(tmp[p].outfile)
    /\ \A p \in Procs :
          FetchFailed(p) =>
              /\ exit[p] = 1
              /\ Count(eff[p], FetchOps) = 1
              /\ ErrorOf(p) # None
              /\ Cardinality(ErrorLines(p)) = 1
              /\ \A i \in 1..Len(stderr[p]) :
                    stderr[p][i][1] \notin {"Traceback", "Exception"}
    /\ \A p, q \in Procs :
          (FetchFailed(p) /\ FetchFailed(q)) =>
              Last(stderr[p]) = Last(stderr[q])

\* the lines of stderr[p] that are of a traceback
TracebackLines(p) ==
    { i \in 1..Len(stderr[p]) : stderr[p][i][1] \in {"Traceback", "Exception"} }

\* C11: every invocation that ends in failure ends with exit status 1,
\* having written exactly one "Error: ..." line, as its last line, and no
\* traceback; this includes the failure to load gradle-versions.json and to
\* make libdir.
C11_FailuresUniformlyReported ==
    \A p \in Procs :
        (pc[p] = "exit" /\ exit[p] # 0) =>
            /\ exit[p] = 1
            /\ Cardinality(ErrorLines(p)) = 1
            /\ Last(stderr[p])[1] = "Error"
            /\ TracebackLines(p) = {}

\* a checksum of exactly ShaHexLen characters, all of them in 0-9a-f
ShaWellFormed(sha256) ==
    /\ Len(sha256) = ShaHexLen
    /\ \A i \in 1..Len(sha256) : sha256[i] \in HexDigits

\* every record of a dict of version records holds a well-formed checksum
AllWellFormed(data) ==
    \A i \in 1..Len(data) : ShaWellFormed(Get(data[i][2], <<"sha256">>))

\* C12: every record that update_gradle_versions puts into data, and every
\* record of gradle-versions.json once it has saved, holds a checksum of
\* exactly 64 characters in 0-9a-f: a response body of any other form makes
\* _gradle_sha256 raise and is not stored.
C12_RefreshStoresOnlyHexChecksums ==
    /\ AllWellFormed(upd.data)
    /\ upd.pc = "done" => AllWellFormed(JsonLoad(store).val)

\* an entry of the index that update_gradle_versions does not skip: a
\* release whose two URLs are the templates instantiated with its version
Passing(vsn) ==
    /\ ~vsn.nightly /\ ~vsn.snapshot
    /\ vsn.downloadUrl = GRADLE_BINZIP_URL(vsn.version)
    /\ vsn.checksumUrl = GRADLE_SHA256_URL(vsn.version)

\* what gradle-versions.json holds when it is loaded
Stored == JsonLoad(store).val

\* after a successful update gradle-versions.json holds data, every version
\* in it comes from a release entry of the index with the template URLs,
\* and its binzip_url is the template instantiated with it
C15_Filtered ==
    upd.pc = "done" =>
        /\ LET r == JsonLoad(store) IN r.ok /\ r.val = upd.data
        /\ \A v \in Keys(upd.data) :
              /\ Get(Get(upd.data, v), <<"binzip_url">>) = GRADLE_BINZIP_URL(v)
              /\ \E i \in 1..Len(upd.index) :
                    upd.index[i].version = v /\ Passing(upd.index[i])
        /\ \A i \in 1..Len(upd.index) :
              Passing(upd.index[i]) => upd.index[i].version \in Keys(upd.data)

\* the entry that is being processed repeats the version of an earlier
\* entry, both passing the filters
AtDuplicate ==
    /\ upd.i \in 1..Len(upd.index)
    /\ Passing(upd.index[upd.i])
    /\ \E i \in 1..(upd.i - 1) :
          Passing(upd.index[i]) /\ upd.index[i].version = upd.index[upd.i].version

C15_Duplicates ==
    /\ (upd.pc = "failed" /\ AtDuplicate) =>
          upd.error = <<"Error", "Duplicate version">>
    /\ upd.pc = "done" =>
          \A i, j \in 1..Len(upd.index) :
              (i < j /\ Passing(upd.index[i]) /\ Passing(upd.index[j])) =>
                  upd.index[i].version # upd.index[j].version

\* C15 as the code has it: a successful update stores exactly the release
\* entries with the template URLs; when two entries that pass these filters
\* carry the same version the update fails with the duplicate-version error
\* at the second of them; gradle-versions.json changes in no step but the
\* one that completes the update.
C15_RefreshFiltersAndRejects ==
    /\ [](C15_Filtered /\ C15_Duplicates)
    /\ [][upd'.pc # "done" => store' = store]_vars

C15_Witness ==
    /\ upd.pc = "failed"
    /\ AtDuplicate
    /\ upd.error = <<"Error", "Duplicate version">>
    /\ store = JsonDump(<< >>)

\* C15 as stated: after a successful update the store holds no nightly or
\* snapshot entry and every binzip_url is the template's, and an index that
\* lists a version more than once, in entries of any kind, makes the update
\* fail.
C15_AnyRepeatedVersionFails ==
    upd.pc = "done" =>
        /\ \A v \in Keys(Stored) :
              Get(Get(Stored, v), <<"binzip_url">>) = GRADLE_BINZIP_URL(v)
        /\ \A i, j \in 1..Len(upd.index) :
              i < j => upd.index[i].version # upd.index[j].version

\* the places of the lines of a file that begin with a key
LinesOf(lines, key) == { i \in 1..Len(lines) : StartsWith(lines[i], key) }

\* what a line that begins with a key holds after the key
ValueAt(lines, i, key) == SubSeq(lines[i], Len(key) + 1, Len(lines[i]))

\* the value of the last line that begins with a key, None if there is none
LastValue(lines, key) ==
    LET places == LinesOf(lines, key)
    IN  IF places = {} THEN None
        ELSE ValueAt(lines, CHOOSE i \in places : \A j \in places : j <= i, key)

\* the first "https\:" of a value without its backslash
Unescaped(value) == Replace1(value, <<"https", "\\", ":">>, <<"https", ":">>)

\* invocation p has called load_wrapper_urls and it has returned or raised
Parsed(p) == pc[p] # "gradlew" /\ Has(eff[p], {"open_props"})

\* C13 as the code has it: load_wrapper_urls raises "No distributionUrl"
\* exactly when no line holds the distributionUrl key or the last such line
\* holds an empty value; otherwise it returns the values of the last line of
\* each key, the URL unescaped, whatever the earlier lines of the key hold,
\* and what it writes to stderr are warnings.
C13_LastOccurrenceDecides ==
    \A p \in Procs :
        Parsed(p) =>
            LET u == LastValue(read[p], KeyUrl)
                h == LastValue(read[p], KeySha)
            IN  IF u \in {None, << >>}
                THEN /\ ErrorOf(p) = MsgNoDistributionUrl
                     /\ wrapper[p] = NoWrapper
                ELSE /\ ErrorOf(p) # MsgNoDistributionUrl
                     /\ wrapper[p] = [binzip_url |-> Unescaped(u), sha256 |-> h]
                     /\ \A i \in 1..Len(stderr[p]) :
                           stderr[p][i][1] = "Warning" \/ i = Len(stderr[p])

C13_Witness ==
    \E p \in Procs :
        /\ Parsed(p)
        /\ Cardinality(LinesOf(read[p], KeyUrl)) = 2
        /\ ValueAt(read[p], 1, KeyUrl) # ValueAt(read[p], 2, KeyUrl)
        /\ wrapper[p].binzip_url = Unescaped(ValueAt(read[p], 2, KeyUrl))
        /\ Has(stderr[p], {WarnManyUrl})

\* C13 as stated: load_wrapper_urls raises only if no line holds the
\* distributionUrl key, and with such a line it returns the value of the
\* last line of each key.
C13_FailsOnlyWithoutUrlLine ==
    \A p \in Procs :
        (Parsed(p) /\ LinesOf(read[p], KeyUrl) # {}) =>
            /\ ErrorOf(p) # MsgNoDistributionUrl
            /\ wrapper[p] = [binzip_url |-> Unescaped(LastValue(read[p], KeyUrl)),
                             sha256 |-> LastValue(read[p], KeySha)]

\* the lines that begin with a key and come after a line of that key, the
\* nearest such line before them holding a value that is not empty
Repeats(lines, key) ==
    { i \in LinesOf(lines, key) :
        \E j \in LinesOf(lines, key) :
            /\ j < i
            /\ \A k \in LinesOf(lines, key) : k < i => k <= j
            /\ ValueAt(lines, j, key) # << >> }

\* C19 as the code has it: load_wrapper_urls writes one "more than one"
\* warning for every line of a key that follows a line of that key with a
\* value that is not empty: a key that appears n times with such values
\* gives n - 1 warnings.
C19_WarnsOnEveryRepeat ==
    \A p \in Procs :
        Parsed(p) =>
            /\ Count(stderr[p], {WarnManyUrl})
                 = Cardinality(Repeats(read[p], KeyUrl))
            /\ Count(stderr[p], {WarnManySha})
                 = Cardinality(Repeats(read[p], KeySha))

C19_Witness ==
    \E p \in Procs :
        /\ Parsed(p)
        /\ Cardinality(LinesOf(read[p], KeyUrl)) = 3
        /\ Count(stderr[p], {WarnManyUrl}) = 2

\* C19 as stated: a key that appears three or more times gives the warning
\* once, at its second line.
C19_OnlyFirstRepeatWarns ==
    \A p \in Procs :
        Parsed(p) =>
            /\ Cardinality(LinesOf(read[p], KeyUrl)) >= 3 =>
                  Count(stderr[p], {WarnManyUrl}) <= 1
            /\ Cardinality(LinesOf(read[p], KeySha)) >= 3 =>
                  Count(stderr[p], {WarnManySha}) <= 1

\* C14: when download_gradle has extracted a distribution and returned
\* gradle_cmd, gradle_cmd exists and is executable, whether unzip or zipfile
\* extracted it and whatever mode the archive records for it.
C14_ExtractedGradleIsExecutable ==
    \A p \in Procs :
        (/\ pc[p] = "run_command"
         /\ Has(eff[p], ExtractOps)
         /\ \A q \in Procs \ {p} : pc[q] = "idle") =>
            /\ Exists(GradleCmd(target[p].version))
            /\ GradleCmd(target[p].version) \in xbit

\* C20: whenever no invocation is in the middle of an extraction, also
\* after one was killed or failed in it, a gradle_cmd that exists belongs to
\* a distribution that is completely extracted; so an invocation that
\* finds gradle_cmd present launches a complete distribution.
C20_PresenceImpliesComplete ==
    /\ (\A p \in Procs : pc[p] # "extract") =>
          \A v \in DOMAIN GradleVersionsJson :
              Exists(GradleCmd(v)) => Complete(v)
    /\ \A p \in Procs :
          (pc[p] = "running" /\ ~Has(eff[p], ExtractOps)) =>
              Complete(target[p].version)

\* gradlew() of p has loaded the manifest and made its checks
Resolved(p) ==
    /\ pc[p] \notin {"idle", "gradlew"}
    /\ Has(eff[p], {"load_versions"})
    /\ ~(Crashed(p) /\ Last(stderr[p])[2] = "OSError or JSONDecodeError")

\* the checks of gradlew() in their order, on what invocation p was given:
\* the message of the first check that fails, None if none does
FirstFailure(p) ==
    LET url == Unescaped(LastValue(read[p], KeyUrl))
        sum == LastValue(read[p], KeySha)
        version == IF Truthy(opt[p].version) THEN opt[p].version
                   ELSE RxGroup1(url)
        record == GradleVersionsJson[version]
    IN  IF Truthy(opt[p].version)
        THEN IF version \notin DOMAIN GradleVersionsJson
             THEN MsgUnknownVersion ELSE None
        ELSE IF ~opt[p].props THEN MsgNoSuchFile
        ELSE IF ~Truthy(url) THEN MsgNoDistributionUrl
        ELSE IF ~RxMatches(url) THEN MsgUnsupportedURL
        ELSE IF version \notin DOMAIN GradleVersionsJson THEN MsgUnknownVersion
        ELSE IF url # record.binzip_url THEN MsgURLMismatch
        ELSE IF Truthy(sum) /\ sum # record.sha256 THEN MsgPropsShaMismatch
        ELSE None

\* the file accesses of gradlew() of p up to the failure msg
OpsUpTo(p, msg) ==
    IF Truthy(opt[p].version) THEN <<"load_versions">>
    ELSE IF msg = MsgNoSuchFile THEN <<"load_versions", "stat_props">>
    ELSE <<"load_versions", "stat_props", "open_props">>

\* the messages of the Errors that gradlew() raises itself
ResolverMessages ==
    {MsgNoSuchFile, MsgNoDistributionUrl, MsgUnsupportedURL,
     MsgUnknownVersion, MsgURLMismatch, MsgPropsShaMismatch}

\* C18: gradlew() makes its checks in the order descriptor exists, has a
\* URL, URL matches the pattern, version in the manifest, URLs equal,
\* checksums equal; the first that fails ends the invocation with its
\* message as the only "Error:" line and with exit status 1, nothing of
\* download_gradle or run_command being executed; when none fails
\* download_gradle is entered.
C18_FirstFailingCheckEnds ==
    \A p \in Procs :
        Resolved(p) =>
            IF FirstFailure(p) = None
            THEN /\ ErrorOf(p) \notin ResolverMessages
                 /\ target[p] # NoTarget
                 /\ Has(eff[p], {"stat_gradle_cmd"}) \/ pc[p] = "download_gradle"
                      \/ (pc[p] = "killed" /\ at[p] = "download_gradle")
            ELSE /\ pc[p] = "exit" /\ exit[p] = 1
                 /\ ErrorOf(p) = FirstFailure(p)
                 /\ Cardinality(ErrorLines(p)) = 1
                 /\ target[p] = NoTarget /\ tmp[p] = NoTmp
                 /\ eff[p] = OpsUpTo(p, FirstFailure(p))

\* a descriptor whose URL and checksum both differ from the manifest's
C18_Witness ==
    \E p \in Procs :
        /\ Resolved(p)
        /\ ~Truthy(opt[p].version)
        /\ RxMatches(wrapper[p].binzip_url)
        /\ WrapperVersion(p) \in DOMAIN GradleVersionsJson
        /\ wrapper[p].binzip_url # GradleVersionsJson[WrapperVersion(p)].binzip_url
        /\ Truthy(wrapper[p].sha256)
        /\ wrapper[p].sha256 # GradleVersionsJson[WrapperVersion(p)].sha256
        /\ ErrorOf(p) = MsgURLMismatch

\* C16: for every content, of any length, download_file leaves the output
\* file holding exactly the content and returns the SHA-256 of the whole
\* content, however the reads cut it into chunks; sha256_file returns the
\* SHA-256 of the whole file, which for the file that download_file wrote is
\* the value download_file returned; for no bytes the value is
\* e3b0c442...b855.
C16_DigestOfWholeContent ==
    /\ dl.pc = "downloaded" =>
         /\ dl.file = dl.content
         /\ dl.ret = hexdigest(dl.content)
    /\ dl.pc = "hashed" =>
         /\ dl.ret = hexdigest(dl.file)
         /\ dl.dl_ret # None => dl.ret = dl.dl_ret /\ dl.file = dl.content
    /\ (dl.pc \in {"downloaded", "hashed"} /\ dl.content = << >>) =>
         dl.ret = EmptyDigest

\* a download of more than a chunk, no multiple of the chunk size, of more
\* than one byte value and with a short read, was written and hashed again
C16_Witness ==
    /\ dl.pc = "hashed"
    /\ dl.dl_ret # None
    /\ dl.short > 0
    /\ Len(dl.content) > 1
    /\ Size(dl.content) > DownloadChunk
    /\ Size(dl.content) % DownloadChunk # 0

\* C17: for every mapping of version strings to records of a URL string
\* and a checksum string, load_gradle_versions after save_gradle_versions
\* returns a mapping equal to the one saved: the same versions, each with
\* the same URL and the same checksum.
C17_ManifestRoundTrip ==
    rt.pc = "loaded" =>
        /\ rt.loaded.ok
        /\ rt.loaded.val = rt.data
        /\ Keys(rt.loaded.val) = Keys(rt.data)
        /\ \A version \in Keys(rt.data) :
             Get(rt.loaded.val, version) = Get(rt.data, version)

\* a mapping of two versions, with a quote in a version and a backslash
\* before the letter n in a URL, was saved and loaded
C17_Witness ==
    /\ rt.pc = "loaded"
    /\ Len(rt.data) = 2
    /\ rt.data[1][1] = <<Quote, "n">>
    /\ Get(rt.data[1][2], <<"binzip_url">>) = <<Backslash, "n">>
    /\ Get(rt.data[2][2], <<"sha256">>) = <<"\n", "é", Backslash>>

====
